---- MODULE Spec2Model ----
(***************************************************************************)
(* Model of the static analysis engine of Requests-Analysis-Project:       *)
(*   src/lint_analyzer.py   StaticLintAnalyzer (AST visitor with 4 rules)  *)
(*   src/metrics_engine.py  CodeMetricCollector (ast.walk based metrics)   *)
(*                                                                         *)
(* A source file is a record: how far open/read/parse get, its text lines  *)
(* and the tree ast.parse returns.  A tree node carries its kind, its      *)
(* lineno, an identifier (name / arg / id / attr / module), a constant     *)
(* value, and its child fields in the order of the node class's _fields,   *)
(* which is the order ast.NodeVisitor.generic_visit and ast.walk use.      *)
(* Strings that the code inspects are sequences of one-character strings.  *)
(* Calls consume interpreter frames; a call that would exceed the          *)
(* recursion limit raises RecursionError, which scan_file's                *)
(* `except Exception` catches like any other error.                        *)
(***************************************************************************)
EXTENDS Integers, Sequences, FiniteSets, TLC

VARIABLES disk, issues, current_file, summary_stats,
          project_root, results, escaped, returned, scans, calls, last

vars == <<disk, issues, current_file, summary_stats,
          project_root, results, escaped, returned, scans, calls, last>>

(* ------------------------------ bounds -------------------------------- *)

\* Number of client calls explored in one behaviour.
MaxCalls == 2

\* The interpreter's recursion limit (sys.getrecursionlimit(), 1000 by
\* default), scaled down together with the depth of the deep input files.
RecursionLimit == 30

(* ------------------------------ sequences ----------------------------- *)

RECURSIVE Flatten(_)
Flatten(ss) == IF ss = <<>> THEN <<>> ELSE Head(ss) \o Flatten(Tail(ss))

RECURSIVE SumSeq(_)
SumSeq(s) == IF s = <<>> THEN 0 ELSE Head(s) + SumSeq(Tail(s))

Range(s) == {s[i] : i \in DOMAIN s}

IsPrefix(s, t) == Len(s) <= Len(t) /\ SubSeq(t, 1, Len(s)) = s

Pad(c, n) == [i \in 1..n |-> c]

(* ------------------------------ str methods --------------------------- *)

UpperChars == <<"A","B","C","D","E","F","G","H","I","J","K","L","M",
                "N","O","P","Q","R","S","T","U","V","W","X","Y","Z">>

LowerChars == <<"a","b","c","d","e","f","g","h","i","j","k","l","m",
                "n","o","p","q","r","s","t","u","v","w","x","y","z">>

\* str.lower(), character by character.
lower(s) ==
    [i \in 1..Len(s) |->
        IF \E k \in 1..26 : UpperChars[k] = s[i]
        THEN LowerChars[CHOOSE k \in 1..26 : UpperChars[k] = s[i]]
        ELSE s[i]]

\* `key in s` for strings: key occurs as a contiguous substring.
contains(key, s) ==
    \E i \in 0..(Len(s) - Len(key)) : SubSeq(s, i + 1, i + Len(key)) = key

Whitespace == {" ", "\t"}

\* str.strip(): leading and trailing whitespace removed.
RECURSIVE lstrip(_)
lstrip(s) == IF s # <<>> /\ Head(s) \in Whitespace THEN lstrip(Tail(s)) ELSE s

RECURSIVE rstrip(_)
rstrip(s) ==
    IF s # <<>> /\ s[Len(s)] \in Whitespace
    THEN rstrip(SubSeq(s, 1, Len(s) - 1)) ELSE s

strip(s) == rstrip(lstrip(s))

(* ------------------------------ paths --------------------------------- *)

\* A path is the sequence of its components.
\* os.path.basename: the final component.
basename(p) == IF p = <<>> THEN "" ELSE p[Len(p)]

\* os.path.join(root, file)
join(root, file) == Append(root, file)

RECURSIVE CommonLen(_, _)
CommonLen(p, q) ==
    IF p # <<>> /\ q # <<>> /\ Head(p) = Head(q)
    THEN 1 + CommonLen(Tail(p), Tail(q)) ELSE 0

\* os.path.relpath(p, start): one ".." per component of start that p does
\* not share, then the rest of p.
relpath(p, start) ==
    LET c == CommonLen(p, start)
    IN  Pad("..", Len(start) - c) \o SubSeq(p, c + 1, Len(p))

(* ------------------------------ AST nodes ----------------------------- *)

Node(kind, lineno, id, fields) ==
    [kind |-> kind, lineno |-> lineno, id |-> id,
     isstr |-> FALSE, value |-> <<>>, fields |-> fields]

Module(body) == Node("Module", 0, "", <<body>>)
Arg(lineno, name) == Node("arg", lineno, name, <<>>)
\* ast.arguments._fields
Arguments(posonlyargs, args, vararg, kwonlyargs, kw_defaults, kwarg, defaults) ==
    Node("arguments", 0, "",
         <<posonlyargs, args, vararg, kwonlyargs, kw_defaults, kwarg, defaults>>)
\* ast.FunctionDef._fields = (name, args, body, decorator_list, returns, ...)
FunctionDef(lineno, name, args, body, decorator_list) ==
    Node("FunctionDef", lineno, name, <<<<args>>, body, decorator_list>>)
AsyncFunctionDef(lineno, name, args, body, decorator_list) ==
    Node("AsyncFunctionDef", lineno, name, <<<<args>>, body, decorator_list>>)
ClassDef(lineno, name, bases, body, decorator_list) ==
    Node("ClassDef", lineno, name, <<bases, body, decorator_list>>)
ExceptHandler(lineno, type, body) == Node("ExceptHandler", lineno, "", <<type, body>>)
Try(lineno, body, handlers, orelse, finalbody) ==
    Node("Try", lineno, "", <<body, handlers, orelse, finalbody>>)
If(lineno, test, body, orelse) == Node("If", lineno, "", <<<<test>>, body, orelse>>)
For(lineno, target, iter, body) == Node("For", lineno, "", <<<<target>>, <<iter>>, body>>)
While(lineno, test, body) == Node("While", lineno, "", <<<<test>>, body>>)
With(lineno, items, body) == Node("With", lineno, "", <<items, body>>)
Call(lineno, func, args) == Node("Call", lineno, "", <<<<func>>, args>>)
Name(lineno, id) == Node("Name", lineno, id, <<>>)
Attribute(lineno, value, attr) == Node("Attribute", lineno, attr, <<<<value>>>>)
Expr(lineno, value) == Node("Expr", lineno, "", <<<<value>>>>)
Assign(lineno, target, value) == Node("Assign", lineno, "", <<<<target>>, <<value>>>>)
Return(lineno, value) == Node("Return", lineno, "", <<<<value>>>>)
Pass(lineno) == Node("Pass", lineno, "", <<>>)
Alias(lineno, name) == Node("alias", lineno, name, <<>>)
Import(lineno, names) == Node("Import", lineno, "", <<names>>)
ImportFrom(lineno, module, names) == Node("ImportFrom", lineno, module, <<names>>)
\* ast.Constant holding a str
Str(lineno, chars) ==
    [kind |-> "Constant", lineno |-> lineno, id |-> "",
     isstr |-> TRUE, value |-> chars, fields |-> <<>>]
\* ast.Constant holding a number
Num(lineno) == Node("Constant", lineno, "", <<>>)

\* ast.iter_child_nodes: the node's children, field by field.
iter_child_nodes(node) == Flatten(node.fields)

\* node.args.args of a function definition
ArgsArgs(node) == node.fields[1][1].fields[2]
\* node.args.kwonlyargs, node.args.posonlyargs
KwOnlyArgs(node) == node.fields[1][1].fields[4]
PosOnlyArgs(node) == node.fields[1][1].fields[1]
VarArgs(node) == node.fields[1][1].fields[3] \o node.fields[1][1].fields[6]

\* ast.walk: the node and its descendants, breadth first.
RECURSIVE walkq(_)
walkq(todo) ==
    IF todo = <<>> THEN <<>>
    ELSE <<Head(todo)>> \o walkq(Tail(todo) \o iter_child_nodes(Head(todo)))

walk(node) == walkq(<<node>>)

(* --------------------- StaticLintAnalyzer: rules ----------------------- *)

\* The traversal state: the analyzer's issues and summary_stats, and whether
\* an exception is propagating.
Raise(s) == [s EXCEPT !.raised = TRUE]

Desc(rule, subject, count, limit) ==
    [rule |-> rule, subject |-> subject, count |-> count, limit |-> limit]

\* _add_issue, entered at frame `depth` with current_file = cf.  The counter
\* is incremented (line 119) before the record is built (lines 120-125);
\* building it calls os.path.basename, which needs two more frames
\* (posixpath.basename and its helper _get_sep).
_add_issue(node, category, description, s, cf, depth) ==
    IF depth > RecursionLimit THEN Raise(s)
    ELSE LET counted == [s EXCEPT !.summary_stats[category] = @ + 1]
         IN  IF depth + 2 > RecursionLimit THEN Raise(counted)
             ELSE [counted EXCEPT !.issues = Append(@,
                      [file |-> basename(cf), line |-> node.lineno,
                       type |-> category, desc |-> description])]

RECURSIVE visit(_, _, _, _)
RECURSIVE visit_children(_, _, _, _)

\* ast.NodeVisitor.generic_visit at frame `depth`: visit every child, field
\* by field; each self.visit(child) is one frame deeper.
generic_visit(node, s, cf, depth) ==
    IF s.raised THEN s
    ELSE IF depth > RecursionLimit THEN Raise(s)
    ELSE visit_children(iter_child_nodes(node), s, cf, depth + 1)

\* Rule 1 (lines 55-62)
visit_ExceptHandler(node, s, cf, depth) ==
    IF depth > RecursionLimit THEN Raise(s)
    ELSE LET body == node.fields[2]
             s1 == IF Len(body) = 1 /\ body[1].kind = "Pass"
                   THEN _add_issue(node, "Code_Smell",
                                   Desc("empty_except", "", 0, 0), s, cf, depth + 1)
                   ELSE s
         IN  generic_visit(node, s1, cf, depth + 1)

\* Rule 2 (lines 67-84)
visit_FunctionDef_limit8(node, s, cf, depth) ==
    IF depth > RecursionLimit THEN Raise(s)
    ELSE LET arg_names == [i \in DOMAIN ArgsArgs(node) |-> ArgsArgs(node)[i].id]
             clean_args == SelectSeq(arg_names, LAMBDA a : a \notin {"self", "cls"})
             limit == 8
             s1 == IF Len(clean_args) > limit
                   THEN _add_issue(node, "Maintainability",
                                   Desc("too_many_params", node.id, Len(clean_args), limit),
                                   s, cf, depth + 1)
                   ELSE s
         IN  generic_visit(node, s1, cf, depth + 1)

visit_FunctionDef(node, s, cf, depth) ==
    IF depth > RecursionLimit THEN Raise(s)
    ELSE LET arg_names == [i \in DOMAIN ArgsArgs(node) |-> ArgsArgs(node)[i].id]
             clean_args == SelectSeq(arg_names, LAMBDA a : a \notin {"self", "cls"})
             limit == 6
             s1 == IF Len(clean_args) > limit
                   THEN _add_issue(node, "Maintainability",
                                   Desc("too_many_params", node.id, Len(clean_args), limit),
                                   s, cf, depth + 1)
                   ELSE s
         IN  generic_visit(node, s1, cf, depth + 1)

\* Rule 3 (lines 89-103)
sensitive_keywords ==
    << [name |-> "token",     chars |-> <<"t", "o", "k", "e", "n">>],
       [name |-> "password",  chars |-> <<"p", "a", "s", "s", "w", "o", "r", "d">>],
       [name |-> "secret",    chars |-> <<"s", "e", "c", "r", "e", "t">>],
       [name |-> "apikey",    chars |-> <<"a", "p", "i", "k", "e", "y">>],
       [name |-> "auth_key",  chars |-> <<"a", "u", "t", "h", "_", "k", "e", "y">>],
       [name |-> "access_id", chars |-> <<"a", "c", "c", "e", "s", "s", "_", "i", "d">>] >>

\* The `for key in sensitive_keywords` loop of lines 98-102.
RECURSIVE keyword_loop(_, _, _, _, _)
keyword_loop(keys, node, s, cf, depth) ==
    IF keys = <<>> \/ s.raised THEN s
    ELSE LET key == Head(keys)
             val_lower == lower(node.value)
             s1 == IF contains(key.chars, val_lower) /\ Len(node.value) > 0
                   THEN IF 10 < Len(node.value) /\ Len(node.value) < 100
                        THEN _add_issue(node, "Security",
                                        Desc("sensitive_literal", key.name, 0, 0),
                                        s, cf, depth + 1)
                        ELSE s
                   ELSE s
         IN  keyword_loop(Tail(keys), node, s1, cf, depth)

visit_Constant(node, s, cf, depth) ==
    IF depth > RecursionLimit THEN Raise(s)
    ELSE LET s1 == IF node.isstr
                   THEN keyword_loop(sensitive_keywords, node, s, cf, depth)
                   ELSE s
         IN  generic_visit(node, s1, cf, depth + 1)

\* Rule 4 (lines 108-115)
visit_Call(node, s, cf, depth) ==
    IF depth > RecursionLimit THEN Raise(s)
    ELSE LET func == node.fields[1][1]
             s1 == IF func.kind = "Name" /\ func.id \in {"eval", "exec"}
                   THEN _add_issue(node, "Security",
                                   Desc("dangerous_call", func.id, 0, 0), s, cf, depth + 1)
                   ELSE s
         IN  generic_visit(node, s1, cf, depth + 1)

\* ast.NodeVisitor.visit at frame `depth`: dispatch on the node's class name
\* to visit_<Class>, or to generic_visit when the analyzer defines none.
visit(node, s, cf, depth) ==
    IF s.raised THEN s
    ELSE IF depth > RecursionLimit THEN Raise(s)
    ELSE CASE node.kind = "ExceptHandler" -> visit_ExceptHandler(node, s, cf, depth + 1)
           [] node.kind = "FunctionDef"   -> visit_FunctionDef(node, s, cf, depth + 1)
           [] node.kind = "Constant"      -> visit_Constant(node, s, cf, depth + 1)
           [] node.kind = "Call"          -> visit_Call(node, s, cf, depth + 1)
           [] OTHER                       -> generic_visit(node, s, cf, depth + 1)

visit_children(nodes, s, cf, depth) ==
    IF nodes = <<>> \/ s.raised THEN s
    ELSE visit_children(Tail(nodes), visit(Head(nodes), s, cf, depth), cf, depth)

(* ------------------------------ input files ---------------------------- *)

\* What a path holds: how far open / read / ast.parse get
\*   "absent"       no such file (open raises FileNotFoundError)
\*   "locked"       listed in its directory, open raises PermissionError
\*   "undecodable"  opens, f.read() raises UnicodeDecodeError
\*   "syntax"       reads, ast.parse raises SyntaxError
\*   "ok"           parses to `tree`
\* and its text as lines, each line cut after its first visible characters.
Source(status, lines, tree) == [status |-> status, lines |-> lines, tree |-> tree]

NoArgs == Arguments(<<>>, <<>>, <<>>, <<>>, <<>>, <<>>, <<>>)
ArgList(lineno, names) == [i \in DOMAIN names |-> Arg(lineno, names[i])]
PlainArgs(lineno, names) ==
    Arguments(<<>>, ArgList(lineno, names), <<>>, <<>>, <<>>, <<>>, <<>>)
Indent(n, chars) == Pad(" ", n) \o chars
Chars_def == <<"d", "e", "f">>
Chars_stmt == <<"x">>
Chars_comment == <<"#">>

\* The self-test input of src/lint_analyzer.py, lines 145-157.
Docstring == <<"U+6B64", "U+51FD", "U+6570", "U+5305", "U+542B", "U+53C2",
               "U+6570", "U+8FC7", "U+591A", "U+7F3A", "U+9677">>
EvalArg == <<"_", "_", "i", "m", "p", "o", "r", "t", "_", "_", "(", "'", "o", "s",
             "'", ")", ".", "s", "y", "s", "t", "e", "m", "(", "'", "l", "s", "'", ")">>
GithubToken == <<"g", "h", "p", "_", "J", "p", "X", "8", "v", "2", "k", "3", "L",
                 "9", "m", "N", "1", "q", "R", "5", "t", "Z", "7", "w", "Y", "0",
                 "x", "S", "4", "a", "B", "6", "c", "E", "8", "i", "D">>

test_case_content ==
    Source("ok",
      << <<>>, Chars_def, Indent(4, <<"\"">>), Indent(4, <<"t">>),
         Indent(8, Chars_comment), Indent(8, <<"e">>), Indent(4, <<"e">>),
         Indent(8, Chars_comment), Indent(8, <<"p">>), <<>>,
         Indent(4, Chars_comment), Indent(4, <<"G">>), Indent(4, <<>>) >>,
      Module(<<
        FunctionDef(2, "sample_bad_function",
          PlainArgs(2, <<"arg1", "arg2", "arg3", "arg4", "arg5", "arg6", "arg7", "arg8">>),
          << Expr(3, Str(3, Docstring)),
             Try(4, <<Expr(6, Call(6, Name(6, "eval"), <<Str(6, EvalArg)>>))>>,
                    <<ExceptHandler(7, <<>>, <<Pass(9)>>)>>, <<>>, <<>>),
             Assign(12, Name(12, "GITHUB_TOKEN"), Str(12, GithubToken)) >>,
          <<>>) >>))

\* The unit-test input of src/metrics_engine.py, lines 116-129.
test_code ==
    Source("ok",
      << <<>>, <<"i">>, <<"i">>, <<>>, <<"c">>, Indent(4, Chars_def), Indent(8, <<"i">>),
         Indent(12, <<"r">>), Indent(8, <<"r">>), <<>>, Chars_def, Indent(4, <<"f">>),
         Indent(8, <<"p">>), Indent(4, <<>>) >>,
      Module(<<
        Import(2, <<Alias(2, "os")>>),
        Import(3, <<Alias(3, "sys")>>),
        ClassDef(5, "TestClass", <<>>,
          << FunctionDef(6, "method_one", PlainArgs(6, <<"self", "x">>),
               << If(7, Node("Compare", 7, "", <<<<Name(7, "x")>>, <<Num(7)>>>>),
                     <<Return(8, Num(8))>>, <<>>),
                  Return(9, Num(9)) >>,
               <<>>) >>,
          <<>>),
        FunctionDef(11, "standalone_func", PlainArgs(11, <<"a", "b", "c">>),
          << For(12, Name(12, "i"), Call(12, Name(12, "range"), <<Num(12)>>),
                 <<Expr(13, Call(13, Name(13, "print"), <<Name(13, "i")>>))>>) >>,
          <<>>) >>))

\* def f(<args>, *, <kwonly>): pass      (or async def)
ParamVariants ==
    << [args |-> <<"a", "b", "c", "d", "e", "f">>, kwonly |-> <<>>, async |-> FALSE],
       [args |-> <<"a", "b", "c", "d", "e", "f", "g">>, kwonly |-> <<>>, async |-> FALSE],
       [args |-> <<"self", "a", "b", "c", "d", "e", "f">>, kwonly |-> <<>>, async |-> FALSE],
       [args |-> <<"self", "a", "b", "c", "d", "e", "f", "g">>, kwonly |-> <<>>, async |-> FALSE],
       [args |-> <<"cls", "a", "b", "c", "d", "e", "f">>, kwonly |-> <<>>, async |-> FALSE],
       [args |-> <<"a", "b", "c", "d", "e", "f", "g", "h">>, kwonly |-> <<>>, async |-> FALSE],
       [args |-> <<>>, kwonly |-> <<>>, async |-> FALSE],
       [args |-> <<"a", "b", "c", "d", "e", "f">>, kwonly |-> <<"g">>, async |-> FALSE],
       [args |-> <<"a", "b", "c", "d", "e", "f", "g">>, kwonly |-> <<>>, async |-> TRUE] >>

ParamFile(v) ==
    LET a == Arguments(<<>>, ArgList(1, v.args), <<>>, ArgList(1, v.kwonly),
                       <<>>, <<>>, <<>>)
    IN  Source("ok", <<Chars_def>>,
          Module(<< IF v.async THEN AsyncFunctionDef(1, "f", a, <<Pass(1)>>, <<>>)
                    ELSE FunctionDef(1, "f", a, <<Pass(1)>>, <<>>) >>))

\* v = "<literal>"
Chars_token == <<"t", "o", "k", "e", "n">>
LiteralVariants ==
    << <<"M", "y", "_", "S", "E", "C", "R", "E", "T", "=", "0", "1", "2", "3", "4",
         "5", "6", "7", "8", "9", "a", "b", "c", "d", "e", "f", "0", "1", "2", "3",
         "4", "5", "6", "7", "8", "9", "a">>,
       <<"k", "e", "y">>,
       Chars_token \o Pad("x", 145),
       Chars_token \o Pad("x", 5),
       Chars_token \o Pad("x", 6),
       Chars_token \o Pad("x", 94),
       Chars_token \o Pad("x", 95),
       <<"m", "y", " ", "s", "e", "c", "r", "e", "t", " ", "t", "o", "k", "e", "n",
         " ", "v", "a", "l", "u", "e">>,
       <<"h", "e", "l", "l", "o", " ", "w", "o", "n", "d", "e", "r", "f", "u", "l",
         " ", "w", "o", "r", "l", "d">>,
       <<"p", "a", "s", "s", "w", "o", "r", "d">> >>

LiteralFile(chars) ==
    Source("ok", <<Chars_stmt>>, Module(<<Assign(1, Name(1, "v"), Str(1, chars))>>))

\* @eval("d")
\* def f(a=eval("x")):
\*     eval("b")
DecoratedFile ==
    Source("ok", <<<<"@">>, Chars_def, Indent(4, <<"e">>)>>,
      Module(<<
        FunctionDef(2, "f",
          Arguments(<<>>, <<Arg(2, "a")>>, <<>>, <<>>, <<>>, <<>>,
                    <<Call(2, Name(2, "eval"), <<Str(2, <<"x">>)>>)>>),
          <<Expr(3, Call(3, Name(3, "eval"), <<Str(3, <<"b">>)>>))>>,
          <<Call(1, Name(1, "eval"), <<Str(1, <<"d">>)>>)>>) >>))

\* def g(a, b, c, d, e, f, g):
\*     try:
\*         pass
\*     except exec("password=hunter2!"):
\*         pass
\*     sandbox.eval(a)
NestedFile ==
    Source("ok", <<Chars_def, Indent(4, <<"t">>), Indent(8, <<"p">>), Indent(4, <<"e">>),
                   Indent(8, <<"p">>), Indent(4, <<"s">>)>>,
      Module(<<
        FunctionDef(1, "g", PlainArgs(1, <<"a", "b", "c", "d", "e", "f", "g">>),
          << Try(2, <<Pass(3)>>,
                 <<ExceptHandler(4,
                     <<Call(4, Name(4, "exec"),
                            <<Str(4, <<"p", "a", "s", "s", "w", "o", "r", "d", "=", "h",
                                       "u", "n", "t", "e", "r", "2", "!">>)>>)>>,
                     <<Pass(5)>>)>>,
                 <<>>, <<>>),
             Expr(6, Call(6, Attribute(6, Name(6, "sandbox"), "eval"), <<Name(6, "a")>>)) >>,
          <<>>) >>))

\* def outer(x):
\*     if x:
\*         for i in x:
\*             while i:
\*                 pass
\*     try:
\*         with x:
\*             pass
\*     except E:
\*         x = 1
\*     def inner(y):
\*         if y:
\*             pass
\*         elif x:
\*             pass
\*     return inner
BranchyFile ==
    Source("ok", <<Chars_def, Indent(4, <<"i">>), Indent(8, <<"f">>), Indent(12, <<"w">>),
                   Indent(16, <<"p">>), Indent(4, <<"t">>), Indent(8, <<"w">>),
                   Indent(12, <<"p">>), Indent(4, <<"e">>), Indent(8, <<"x">>),
                   Indent(4, Chars_def), Indent(8, <<"i">>), Indent(12, <<"p">>),
                   Indent(8, <<"e">>), Indent(12, <<"p">>), Indent(4, <<"r">>)>>,
      Module(<<
        FunctionDef(1, "outer", PlainArgs(1, <<"x">>),
          << If(2, Name(2, "x"),
                <<For(3, Name(3, "i"), Name(3, "x"),
                      <<While(4, Name(4, "i"), <<Pass(5)>>)>>)>>, <<>>),
             Try(6, <<With(7, <<Node("withitem", 0, "", <<<<Name(7, "x")>>>>)>>, <<Pass(8)>>)>>,
                    <<ExceptHandler(9, <<Name(9, "E")>>,
                                    <<Assign(10, Name(10, "x"), Num(10))>>)>>, <<>>, <<>>),
             FunctionDef(11, "inner", PlainArgs(11, <<"y">>),
               <<If(12, Name(12, "y"), <<Pass(13)>>,
                     <<If(14, Name(14, "x"), <<Pass(15)>>, <<>>)>>)>>, <<>>),
             Return(16, Name(16, "inner")) >>,
          <<>>) >>))

\* eval("x").a.a. ... .a   with n attribute accesses
RECURSIVE AttrChain(_, _)
AttrChain(n, inner) == IF n = 0 THEN inner ELSE Attribute(1, AttrChain(n - 1, inner), "a")

DeepFile(n) ==
    Source("ok", <<<<"e">>>>,
      Module(<<Expr(1, AttrChain(n, Call(1, Name(1, "eval"), <<Str(1, <<"x">>)>>)))>>))

\* The attribute depth at which visit_Call, reached from a scan_file called
\* at module level, runs _add_issue in the last frames the limit allows.
DeepN == (RecursionLimit - 9) \div 2

\* eval(x)
EvalFile == Source("ok", <<<<"e">>>>, Module(<<Expr(1, Call(1, Name(1, "eval"), <<Name(1, "x")>>))>>))

\* try:
\*     x
\* except:
\*     pass
HandlerFile ==
    Source("ok", <<<<"t">>, Indent(4, <<"x">>), <<"e">>, Indent(4, <<"p">>)>>,
      Module(<<Try(1, <<Expr(2, Name(2, "x"))>>, <<ExceptHandler(3, <<>>, <<Pass(4)>>)>>,
                   <<>>, <<>>)>>))

Failing(status) == Source(status, <<>>, Module(<<>>))

\* A file is named on disk by [name, n]; File gives what it holds.
Id(name, n) == [name |-> name, n |-> n]

File(id) ==
    CASE id.name = "selftest"  -> test_case_content
      [] id.name = "testcode"  -> test_code
      [] id.name = "params"    -> ParamFile(ParamVariants[id.n])
      [] id.name = "literal"   -> LiteralFile(LiteralVariants[id.n])
      [] id.name = "decorated" -> DecoratedFile
      [] id.name = "nested"    -> NestedFile
      [] id.name = "branchy"   -> BranchyFile
      [] id.name = "deep"      -> DeepFile(id.n)
      [] id.name = "evalfile"  -> EvalFile
      [] id.name = "handler"   -> HandlerFile
      [] OTHER                 -> Failing(id.name)

MainContents ==
    {Id(n, 0) : n \in {"selftest", "testcode", "decorated", "nested", "branchy",
                       "syntax", "locked", "undecodable"}}
    \cup {Id("params", i) : i \in DOMAIN ParamVariants}
    \cup {Id("literal", i) : i \in DOMAIN LiteralVariants}
    \cup {Id("deep", n) : n \in {DeepN - 1, DeepN, DeepN + 1, DeepN + 3}}

\* The files of the project, in the order os.walk lists them (top-down).
\* The order of the entries of one directory is the operating system's;
\* one order is fixed here, and no property below depends on it.
P_main == <<"pkg", "main.py">>
P_notes == <<"pkg", "notes.txt">>
P_a == <<"pkg", "a", "__init__.py">>
P_b == <<"pkg", "b", "__init__.py">>
Paths == <<P_main, P_notes, P_a, P_b>>

Disk(main, a, b) ==
    (P_main :> main) @@ (P_notes :> Id("syntax", 0)) @@ (P_a :> a) @@ (P_b :> b)

Disks ==
    {Disk(m, Id("evalfile", 0), Id("handler", 0)) : m \in MainContents}
    \cup {Disk(Id("nested", 0), a, b) :
            a \in {Id("syntax", 0), Id("locked", 0), Id("evalfile", 0)},
            b \in {Id("undecodable", 0), Id("absent", 0), Id("handler", 0)}}
    \cup {Disk(Id("locked", 0), Id("locked", 0), Id("absent", 0))}

Roots == {<<"pkg">>, <<"pkg", "a">>, <<"missing">>}

\* file.endswith('.py') for the file names of Paths
endswith_py(file) == file \in {"main.py", "__init__.py"}

(* --------------------- the file system, as the code uses it ------------ *)

OnDisk(d, p) == \E i \in DOMAIN Paths : Paths[i] = p /\ d[p].name # "absent"

\* The directories of the project: they exist whatever their files hold.
Directories ==
    UNION {{SubSeq(Paths[i], 1, n) : n \in 1..(Len(Paths[i]) - 1)} : i \in DOMAIN Paths}

\* os.path.exists(directory)
exists(d, directory) == directory \in Directories \/ OnDisk(d, directory)

\* os.walk(root): every file below root as (root, file), directories top-down.
\* A path that is a file, or that does not exist, yields nothing.
os_walk(d, root) ==
    SelectSeq(Paths, LAMBDA p : OnDisk(d, p) /\ IsPrefix(root, p) /\ p # root)

(* --------------------- StaticLintAnalyzer: operations ------------------ *)

\* The analyzer object; `scans` is a history of the files scan_file was
\* called on: the call it belongs to, the issues it appended (lo+1..hi) and
\* how the try block ended.
Analyzer(i, c, st, sc) ==
    [issues |-> i, current_file |-> c, summary_stats |-> st, scans |-> sc]

\* __init__ (lines 12-20)
NewAnalyzer ==
    Analyzer(<<>>, <<>>, [c \in {"Maintainability", "Security", "Code_Smell"} |-> 0], <<>>)

ScanRecord(call, path, lo, hi, outcome) ==
    [call |-> call, path |-> path, lo |-> lo, hi |-> hi, outcome |-> outcome]

\* scan_file (lines 41-50), its frame at `depth`.  Whatever the try block
\* raises is caught and printed; what was recorded before stays recorded.
scan_file_reports_failure(an, d, file_path, depth, call) ==
    LET src == File(d[file_path])
        rec(hi, outcome) == ScanRecord(call, file_path, Len(an.issues), hi, outcome)
    IN  IF src.status # "ok"
        THEN [an EXCEPT !.current_file = file_path,
                        !.issues = Append(@, [file |-> basename(file_path), line |-> 1,
                                              type |-> "Code_Smell",
                                              desc |-> Desc("unreadable", "", 0, 0)]),
                        !.summary_stats["Code_Smell"] = @ + 1,
                        !.scans = Append(@, rec(Len(an.issues) + 1, src.status))]
        ELSE LET s == visit(src.tree,
                            [issues |-> an.issues, summary_stats |-> an.summary_stats,
                             raised |-> FALSE],
                            file_path, depth + 1)
             IN  Analyzer(s.issues, file_path, s.summary_stats,
                          Append(an.scans,
                                 rec(Len(s.issues), IF s.raised THEN "raised" ELSE "ok")))

scan_file(an, d, file_path, depth, call) ==
    LET src == File(d[file_path])
        rec(hi, outcome) == ScanRecord(call, file_path, Len(an.issues), hi, outcome)
    IN  IF src.status # "ok"
        THEN [an EXCEPT !.current_file = file_path,
                        !.scans = Append(@, rec(Len(an.issues), src.status))]
        ELSE LET s == visit(src.tree,
                            [issues |-> an.issues, summary_stats |-> an.summary_stats,
                             raised |-> FALSE],
                            file_path, depth + 1)
             IN  Analyzer(s.issues, file_path, s.summary_stats,
                          Append(an.scans,
                                 rec(Len(s.issues), IF s.raised THEN "raised" ELSE "ok")))

\* The loop of analyze_project (lines 32-37) over the files os.walk lists.
RECURSIVE scan_each(_, _, _, _, _)
scan_each(files, an, d, depth, call) ==
    IF files = <<>> THEN an
    ELSE LET file == basename(Head(files))
             root == SubSeq(Head(files), 1, Len(Head(files)) - 1)
         IN  IF endswith_py(file)
             THEN scan_each(Tail(files),
                            scan_file([an EXCEPT !.current_file = join(root, file)],
                                      d, join(root, file), depth + 1, call),
                            d, depth, call)
             ELSE scan_each(Tail(files), an, d, depth, call)

\* analyze_project (lines 22-39): the analyzer afterwards and the value
\* returned (a new empty list when the directory does not exist, else
\* self.issues).
analyze_project(an, d, directory, depth, call) ==
    IF ~exists(d, directory)
    THEN [an |-> an, value |-> <<>>]
    ELSE LET after == scan_each(os_walk(d, directory), an, d, depth, call)
         IN  [an |-> after, value |-> after.issues]

(* --------------------- CodeMetricCollector ----------------------------- *)

\* calculate_raw_metrics (lines 26-37)
calculate_raw_metrics(lines) ==
    LET loc == Len(lines)
        blank_lines == Len(SelectSeq(lines, LAMBDA l : strip(l) = <<>>))
        comment_lines ==
            Len(SelectSeq(lines, LAMBDA l : strip(l) # <<>> /\ Head(strip(l)) = "#"))
    IN  [LOC |-> loc, Blank |-> blank_lines, Comment |-> comment_lines,
         CodeOnly |-> loc - blank_lines - comment_lines]

BranchKinds == {"If", "For", "While", "Try", "With"}

\* lines 68-71: 1 + the branch nodes among ast.walk(node)
complexity_own_body(node) ==
    1 + Len(SelectSeq(iter_child_nodes(node), LAMBDA child : child.kind \in BranchKinds))

complexity(node) ==
    1 + Len(SelectSeq(walk(node), LAMBDA child : child.kind \in BranchKinds))

\* lines 73-77
function_detail(node) ==
    [name |-> node.id, complexity |-> complexity(node),
     args_count |-> Len(ArgsArgs(node))]

\* lines 80-85: the names an import node adds
import_names(node) ==
    IF node.kind = "Import" THEN {n.id : n \in Range(node.fields[1])}
    ELSE {node.id}

\* analyze_file (lines 39-94).  open() stands outside the try block, so a
\* file that cannot be opened raises out of analyze_file; a failing read or
\* parse returns None.  `value` holds the returned dict, or nothing for None.
\* list(set(imports)) has no defined order: imports is kept as a set.
analyze_file(d, root, file_path) ==
    LET src == File(d[file_path])
        nodes == walk(src.tree)
        funcs == SelectSeq(nodes, LAMBDA n : n.kind = "FunctionDef")
    IN  IF src.status = "absent" THEN [raised |-> "FileNotFoundError", value |-> <<>>]
        ELSE IF src.status = "locked" THEN [raised |-> "PermissionError", value |-> <<>>]
        ELSE IF src.status # "ok" THEN [raised |-> "", value |-> <<>>]
        ELSE [raised |-> "",
              value |-> << [file |-> relpath(file_path, root),
                            raw_metrics |-> calculate_raw_metrics(src.lines),
                            classes |-> Len(SelectSeq(nodes, LAMBDA n : n.kind = "ClassDef")),
                            functions |-> Len(funcs),
                            imports |-> UNION {import_names(n) :
                                n \in {m \in Range(nodes) : m.kind \in {"Import", "ImportFrom"}}},
                            func_details |-> [i \in DOMAIN funcs |-> function_detail(funcs[i])]]
                        >>]

\* get_py_files (lines 17-24)
get_py_files(d, root) == SelectSeq(os_walk(d, root), LAMBDA p : endswith_py(basename(p)))

\* The loop of run (lines 101-104): results so far, and the exception that
\* ended it, if any.
RECURSIVE run_loop(_, _, _, _)
run_loop(files, res, d, root) ==
    IF files = <<>> THEN [results |-> res, raised |-> ""]
    ELSE LET r == analyze_file(d, root, Head(files))
         IN  IF r.raised # "" THEN [results |-> res, raised |-> r.raised]
             ELSE run_loop(Tail(files), res \o r.value, d, root)

\* run (lines 96-108)
run(res, d, root) == run_loop(get_py_files(d, root), res, d, root)

(* ------------------------------ the state machine ---------------------- *)

\* disk           the files (fixed during a behaviour)
\* issues, current_file, summary_stats   the StaticLintAnalyzer
\* project_root, results                 the CodeMetricCollector
\* returned       what the last call returned, as a sequence (None: empty)
\* escaped        the exception the last call let through to its caller
\* scans          history of scan_file calls
\* calls          number of client calls so far
\* last           the last client call: [op, arg]

TheAnalyzer == Analyzer(issues, current_file, summary_stats, scans)

Init ==
    /\ disk \in Disks
    /\ project_root \in Roots
    /\ issues = NewAnalyzer.issues
    /\ current_file = NewAnalyzer.current_file
    /\ summary_stats = NewAnalyzer.summary_stats
    /\ results = <<>>
    /\ returned = <<>>
    /\ escaped = ""
    /\ scans = <<>>
    /\ calls = 0
    /\ last = [op |-> "__init__", arg |-> <<>>]

SetAnalyzer(an) ==
    /\ issues' = an.issues
    /\ current_file' = an.current_file
    /\ summary_stats' = an.summary_stats
    /\ scans' = an.scans

\* tester.scan_file(path), called from module level as in line 165
ScanFile(path) ==
    /\ calls < MaxCalls
    /\ SetAnalyzer(scan_file(TheAnalyzer, disk, path, 2, calls + 1))
    /\ returned' = <<>>
    /\ escaped' = ""
    /\ calls' = calls + 1
    /\ last' = [op |-> "scan_file", arg |-> path]
    /\ UNCHANGED <<disk, project_root, results>>

\* analyzer.analyze_project(directory), called from module level
AnalyzeProject(directory) ==
    /\ calls < MaxCalls
    /\ LET r == analyze_project(TheAnalyzer, disk, directory, 2, calls + 1)
       IN  SetAnalyzer(r.an) /\ returned' = r.value
    /\ escaped' = ""
    /\ calls' = calls + 1
    /\ last' = [op |-> "analyze_project", arg |-> directory]
    /\ UNCHANGED <<disk, project_root, results>>

\* collector.analyze_file(path), as test_engine calls it (line 135)
AnalyzeFile(path) ==
    /\ calls < MaxCalls
    /\ LET r == analyze_file(disk, project_root, path)
       IN  returned' = r.value /\ escaped' = r.raised
    /\ calls' = calls + 1
    /\ last' = [op |-> "analyze_file", arg |-> path]
    /\ UNCHANGED <<disk, issues, current_file, summary_stats, scans, project_root, results>>

\* collector.run() (line 153)
Run ==
    /\ calls < MaxCalls
    /\ LET r == run(results, disk, project_root)
       IN  /\ results' = r.results
           /\ escaped' = r.raised
           /\ returned' = IF r.raised = "" THEN r.results ELSE <<>>
    /\ calls' = calls + 1
    /\ last' = [op |-> "run", arg |-> project_root]
    /\ UNCHANGED <<disk, issues, current_file, summary_stats, scans, project_root>>

Next ==
    \/ \E path \in Range(Paths) : ScanFile(path)
    \/ \E directory \in Roots : AnalyzeProject(directory)
    \/ \E path \in Range(Paths) : AnalyzeFile(path)
    \/ Run

Spec == Init /\ [][Next]_vars

(* ------------------------------ properties ----------------------------- *)

Categories == {"Maintainability", "Security", "Code_Smell"}

\* The issues a recorded scan appended, and the tree it walked.
Segment(r) == SubSeq(issues, r.lo + 1, r.hi)
TreeOf(r) == File(disk[r.path]).tree
Parsed(r) == File(disk[r.path]).status = "ok"

\* Every node of a tree, by structural recursion (a node, then the nodes
\* of each child in turn).
RECURSIVE NodesOf(_)
NodesOf(node) ==
    LET kids == iter_child_nodes(node)
    IN  <<node>> \o Flatten([i \in DOMAIN kids |-> NodesOf(kids[i])])

CountWhere(s, P(_)) == Cardinality({i \in DOMAIN s : P(s[i])})

\* The disk with every file that fails to parse taken away.
WithoutUnparseable(d) ==
    [p \in DOMAIN d |-> IF d[p].name = "syntax" THEN Id("absent", 0) ELSE d[p]]

\* C1: after any sequence of scan_file / analyze_project calls the three
\* summary_stats counters add up to the number of issues, and each counter
\* is the number of recorded issues of its category.
C1_SummaryCountsIssues ==
    /\ summary_stats["Maintainability"] + summary_stats["Security"]
         + summary_stats["Code_Smell"] = Len(issues)
    /\ \A c \in Categories :
         summary_stats[c] = CountWhere(issues, LAMBDA i : i.type = c)

\* C2: a file that fails to parse is skipped.  analyze_project leaves the
\* analyzer's issues and counters, and run leaves the collector's results
\* and outcome, exactly as the same call does on a disk that does not hold
\* the failing files; scanning a failing file records nothing, and no
\* metrics entry names a failing file.
C2_ParseFailureSkipsOnlyThatFile ==
    [][ /\ \A directory \in Roots :
             last'.op = "analyze_project" /\ last'.arg = directory =>
                LET clean == analyze_project(TheAnalyzer, WithoutUnparseable(disk),
                                             directory, 2, calls + 1)
                IN  /\ issues' = clean.an.issues
                    /\ summary_stats' = clean.an.summary_stats
                    /\ returned' = clean.value
                    /\ \A i \in DOMAIN scans' :
                          scans'[i].outcome = "syntax" => scans'[i].hi = scans'[i].lo
        /\ (last'.op = "scan_file" /\ File(disk[last'.arg]).status = "syntax") =>
             issues' = issues /\ summary_stats' = summary_stats
        /\ last'.op = "run" =>
             LET clean == run(results, WithoutUnparseable(disk), project_root)
             IN  /\ results' = clean.results
                 /\ escaped' = clean.raised
                 /\ \A i \in DOMAIN results', p \in Range(Paths) :
                       disk[p].name = "syntax" =>
                          results'[i].file # relpath(p, project_root)
      ]_vars

\* C2 witness: a project scan met a file that does not parse, recorded
\* nothing for it, and recorded issues for a file scanned after it; and a
\* run over such a project returned metrics.
C2_Witness_lint ==
    /\ last.op = "analyze_project"
    /\ \E i, j \in DOMAIN scans :
         /\ i < j
         /\ scans[i].outcome = "syntax" /\ scans[i].hi = scans[i].lo
         /\ scans[j].outcome = "ok" /\ scans[j].hi > scans[j].lo
         /\ \E k \in DOMAIN scans : k < i /\ scans[k].hi > scans[k].lo

\* C3: a file that cannot be opened or read fails alone: analyze_project
\* and run let no exception through to their caller and return the results
\* of the files that can be analysed (an empty result when there are none).
C3_UnreadableFileFailsAlone ==
    /\ last.op \in {"analyze_project", "run"} => escaped = ""
    /\ last.op = "run" =>
         \A p \in Range(get_py_files(disk, project_root)) :
            File(disk[p]).status = "ok" =>
               \E i \in DOMAIN returned : returned[i].file = relpath(p, project_root)

\* C4: a fresh analyzer that scans the self-test file (a function of 8
\* parameters with one bare `except: pass` and one eval call) holds exactly
\* 3 issues, one per category, and summary_stats is 1 / 1 / 1.
C4_SelfTestYieldsThreeIssues ==
    (calls = 1 /\ last.op = "scan_file" /\ disk[last.arg] = Id("selftest", 0)) =>
        /\ Len(issues) = 3
        /\ \A c \in Categories : CountWhere(issues, LAMBDA i : i.type = c) = 1
        /\ summary_stats = [c \in Categories |-> 1]

C4_Witness ==
    /\ calls = 1 /\ last.op = "scan_file" /\ disk[last.arg] = Id("selftest", 0)
    /\ Len(issues) = 3

\* C5: for every string literal of a scanned file the sensitive-literal
\* rule records exactly one issue when the lower-cased text holds a keyword
\* and the length is strictly between 10 and 100, and none otherwise: never
\* more than one for a node.  (The input files hold one literal per line.)
IsSensitive(n) ==
    /\ n.kind = "Constant" /\ n.isstr
    /\ \E k \in DOMAIN sensitive_keywords :
          contains(sensitive_keywords[k].chars, lower(n.value))
    /\ Len(n.value) > 10 /\ Len(n.value) < 100

C5_OneIssuePerSensitiveLiteral ==
    \A k \in DOMAIN scans :
       scans[k].outcome = "ok" =>
          LET nodes == NodesOf(TreeOf(scans[k]))
              seg == Segment(scans[k])
          IN  \A x \in DOMAIN nodes :
                 (nodes[x].kind = "Constant" /\ nodes[x].isstr) =>
                    CountWhere(seg, LAMBDA i : /\ i.desc.rule = "sensitive_literal"
                                               /\ i.line = nodes[x].lineno)
                      = IF IsSensitive(nodes[x]) THEN 1 ELSE 0

\* C6: a function or method definition is flagged if and only if the number
\* of its parameters, those named self or cls not counted, exceeds 6, and
\* the issue cites that number against 6.
ParameterCount(n) ==
    LET all == PosOnlyArgs(n) \o ArgsArgs(n) \o VarArgs(n) \o KwOnlyArgs(n)
    IN  CountWhere(all, LAMBDA a : a.id \notin {"self", "cls"})

C6_FlaggedIffMoreThanSixParameters ==
    \A k \in DOMAIN scans :
       scans[k].outcome = "ok" =>
          LET nodes == NodesOf(TreeOf(scans[k]))
              seg == Segment(scans[k])
          IN  \A x \in DOMAIN nodes :
                 nodes[x].kind \in {"FunctionDef", "AsyncFunctionDef"} =>
                    ( ParameterCount(nodes[x]) > 6
                      <=> \E i \in DOMAIN seg :
                             /\ seg[i].type = "Maintainability"
                             /\ seg[i].line = nodes[x].lineno
                             /\ seg[i].desc.count = ParameterCount(nodes[x])
                             /\ seg[i].desc.limit = 6 )

\* C7: every function the metrics collector records has complexity 1 plus
\* the number of if / for / while / try / with nodes anywhere below it,
\* nested function bodies included; so the complexity is at least 1.
RECURSIVE BranchesBelow(_)
BranchesBelow(node) ==
    LET kids == iter_child_nodes(node)
    IN  (IF node.kind \in {"If", "For", "While", "Try", "With"} THEN 1 ELSE 0)
        + SumSeq([i \in DOMAIN kids |-> BranchesBelow(kids[i])])

MetricsOf(entry, p) ==
    /\ entry.file = relpath(p, project_root)
    /\ LET fns == SelectSeq(NodesOf(File(disk[p]).tree), LAMBDA n : n.kind = "FunctionDef")
       IN  /\ Len(entry.func_details) = Len(fns)
           /\ \A x \in DOMAIN fns :
                 \E i \in DOMAIN entry.func_details :
                    /\ entry.func_details[i].name = fns[x].id
                    /\ entry.func_details[i].complexity = 1 + BranchesBelow(fns[x])
           /\ \A i \in DOMAIN entry.func_details :
                 entry.func_details[i].complexity >= 1

Firing(n) ==
    IF n.kind = "ExceptHandler" /\ Len(n.fields[2]) = 1 /\ n.fields[2][1].kind = "Pass"
        THEN {"empty_except"}
    ELSE IF n.kind = "FunctionDef"
            /\ CountWhere(ArgsArgs(n), LAMBDA a : a.id \notin {"self", "cls"}) > 6
        THEN {"too_many_params"}
    ELSE IF IsSensitive(n) THEN {"sensitive_literal"}
    ELSE IF n.kind = "Call" /\ n.fields[1][1].kind = "Name"
            /\ n.fields[1][1].id \in {"eval", "exec"}
        THEN {"dangerous_call"}
    ELSE {}

C8_EveryFiringNodeIsReported ==
    \A k \in DOMAIN scans :
       Parsed(scans[k]) =>
          LET nodes == NodesOf(TreeOf(scans[k]))
              seg == Segment(scans[k])
          IN  \A x \in DOMAIN nodes :
                 \A rule \in Firing(nodes[x]) :
                    \E i \in DOMAIN seg :
                       seg[i].desc.rule = rule /\ seg[i].line = nodes[x].lineno

\* C9: within one file the issues are in source order: an issue of an
\* earlier line is never recorded after an issue of a later line.
C9_IssuesInSourceOrder ==
    \A k \in DOMAIN scans :
       scans[k].outcome = "ok" =>
          \A i, j \in (scans[k].lo + 1)..scans[k].hi :
             i < j => issues[i].line <= issues[j].line

\* C10: the file field of an issue identifies the scanned file: issues of
\* two different scanned files never carry the same file value.
C10_FileFieldIdentifiesTheFile ==
    \A k, m \in DOMAIN scans :
       scans[k].path # scans[m].path =>
          \A i \in (scans[k].lo + 1)..scans[k].hi, j \in (scans[m].lo + 1)..scans[m].hi :
             issues[i].file # issues[j].file

====
